---- MODULE Spec2Model ----
(***************************************************************************)
(* Model of the ML pipeline web application (web_app.py): the global       *)
(* pipeline_status record, the upload / clear / status / predict request   *)
(* handlers and the background run_pipeline thread, statement by           *)
(* statement wherever a statement touches shared state (the status record, *)
(* the data directories, the docker daemon).                               *)
(***************************************************************************)
EXTENDS Integers, Sequences, FiniteSets, TLC

\* ------------------------------------------------------------------ bounds
\* requests of every kind taken together (/upload accepted or rejected,
\* /status, socket connect, /clear, /predict)
MaxRequests == 2

\* ------------------------------------------------------------- file names
\* A file name is a sequence of characters; "U+65E5" stands for one
\* non-ASCII character that has no ASCII decomposition.
XLSX == <<".", "x", "l", "s", "x">>
CSV == <<".", "c", "s", "v">>
CanonXLSX == <<"O", "n", "l", "i", "n", "e", "R", "e", "t", "a", "i", "l">> \o XLSX
CanonCSV == <<"O", "n", "l", "i", "n", "e", "R", "e", "t", "a", "i", "l">> \o CSV
CleanedName == <<"OnlineRetail_cleaned.csv">>
ModelName == <<"model.pkl">>

EndsWith(s, suf) ==
    /\ Len(s) >= Len(suf)
    /\ SubSeq(s, Len(s) - Len(suf) + 1, Len(s)) = suf

AsciiKeep == {"a", "b", "c", "d", "e", "i", "l", "n", "o", "s", "t", "v", "x",
              "O", "R", ".", "_", "-"}
Separators == {"/"}
Whitespace == {" "}

\* filename.encode("ascii", "ignore") then replace(sep, " ")
AsciiOnly(s) ==
    LET F[k \in 0..Len(s)] ==
            IF k = 0 THEN <<>>
            ELSE IF s[k] \in Separators THEN Append(F[k - 1], " ")
            ELSE IF s[k] \in AsciiKeep \cup Whitespace THEN Append(F[k - 1], s[k])
            ELSE F[k - 1]
    IN F[Len(s)]

\* "_".join(filename.split()) followed by the removal of every character
\* outside [A-Za-z0-9_.-]
JoinSplit(s) ==
    LET F[k \in 0..Len(s)] ==
            IF k = 0 THEN <<>>
            ELSE IF s[k] \in Whitespace
                 THEN F[k - 1]
                 ELSE IF k > 1 /\ s[k - 1] \in Whitespace /\ F[k - 1] # <<>>
                      THEN F[k - 1] \o <<"_", s[k]>>
                      ELSE Append(F[k - 1], s[k])
    IN F[Len(s)]

RECURSIVE StripLeft(_)
StripLeft(s) ==
    IF s # <<>> /\ Head(s) \in {".", "_"} THEN StripLeft(Tail(s)) ELSE s

RECURSIVE StripRight(_)
StripRight(s) ==
    IF s # <<>> /\ s[Len(s)] \in {".", "_"}
    THEN StripRight(SubSeq(s, 1, Len(s) - 1))
    ELSE s

\* werkzeug.utils.secure_filename as called by upload_file
secure_filename(s) == StripRight(StripLeft(JoinSplit(AsciiOnly(s))))

\* Client file names a request may carry.  NoFilePart stands for a request
\* without a 'file' part.
NoFilePart == <<"<no file part>">>
SalesCsv == <<"s", "a", "l", "e", "s">> \o CSV
DataXlsx == <<"d", "a", "t", "a">> \o XLSX
UnicodeXlsx == <<"U+65E5">> \o XLSX
NotesTxt == <<"n", "o", "t", "e", "s", ".", "t", "x", "t">>
ValidClientFiles == {SalesCsv, DataXlsx, CanonCSV, CanonXLSX, UnicodeXlsx}
ClientFiles == ValidClientFiles \cup {NotesTxt, <<>>, NoFilePart}

\* the extension is not looked at
AcceptedAnyName(f) ==
    /\ f # NoFilePart
    /\ f # <<>>

\* upload_file's test at line 304 (after the two early returns)
Accepted(f) ==
    /\ f # NoFilePart
    /\ f # <<>>
    /\ (EndsWith(f, XLSX) \/ EndsWith(f, CSV))

\* ---------------------------------------------------------- status record
Phases == <<"upload", "conversion", "cleaning", "training", "inference">>
PhaseSet == {Phases[k] : k \in 1..Len(Phases)}
Now == "HH:MM:SS"
FreshPhase == [status |-> "pending", timestamp |-> "None", message |-> ""]

InitialStatus ==
    [current_phase |-> "idle",
     phases |-> [p \in PhaseSet |-> FreshPhase],
     model_ready |-> FALSE,
     logs |-> <<>>]

LogEntry(message, level) == [timestamp |-> Now, message |-> message, level |-> level]

\* the entry update_phase hands to add_log
PhaseLog(u) ==
    LogEntry(<<"Fase", u.phase, u.status, u.message>>,
             IF u.status # "error" THEN "info" ELSE "error")

NoUpd == [phase |-> "", status |-> "", message |-> ""]
NoOut == [type |-> "none"]
\* the status record serialised for a reader: the body of a /status response
\* and of a 'status_update' event
Snapshot(ps) == [type |-> "snapshot", body |-> ps]

VARIABLES
    pipeline_status,  \* the global status record
    raw,              \* /app/data/raw: set of [name, content]
    processed,        \* /app/data/processed
    model,            \* /app/data/model
    container,        \* the docker container named ml_inference_service
    pushed,           \* last 'status_update' broadcast (<<>> before the first)
    out,              \* what the step just taken sent out (response, event, command)
    run,              \* the run_pipeline threads, one per accepted upload
    up,               \* the request thread inside upload_file
    cl,               \* the request thread inside clear_data
    pr,               \* the request thread inside predict
    nUploads,         \* accepted uploads so far
    nClears,          \* /clear requests so far
    nPredicts,        \* /predict requests so far
    nReads,           \* /status requests and socket connections so far
    nRejected         \* /upload requests that failed validation so far

vars == <<pipeline_status, raw, processed, model, container, pushed, out,
          run, up, cl, pr, nUploads, nClears, nPredicts, nReads, nRejected>>

Runs == 1..MaxRequests
Workers == {"ml-pipeline-converter", "ml-pipeline-cleaning",
            "ml-pipeline-training", "ml-pipeline-inference"}

NoContainer == [state |-> "absent", by |-> 0]

IdleRun ==
    [pc |-> "idle", client |-> <<>>, filename |-> <<>>, upd |-> NoUpd, ret |-> "", stage |-> "",
     rc |-> "none", networks |-> <<>>, network |-> "", invoked |-> [w \in Workers |-> 0],
     failed |-> FALSE]

IdleUp == [pc |-> "idle", file |-> <<>>, filename |-> <<>>, upd |-> NoUpd, ret |-> ""]

IdleCl == [pc |-> "idle", k |-> 0]

IdlePr == [pc |-> "idle", worker |-> ""]

Requests == nUploads + nClears + nPredicts + nReads + nRejected

\* run_pipeline's thread function has returned: its locals are gone
DoneRun == [IdleRun EXCEPT !.pc = "done"]
NoRunActive == \A i \in Runs : run[i].pc \in {"idle", "done"}

Init ==
    /\ pipeline_status = InitialStatus
    /\ raw = {}
    /\ processed = {}
    /\ model = {}
    /\ container = NoContainer
    /\ pushed = <<>>
    /\ out = NoOut
    /\ run = [i \in Runs |-> IdleRun]
    /\ up = IdleUp
    /\ cl = IdleCl
    /\ pr = IdlePr
    /\ nUploads = 0
    /\ nClears = 0
    /\ nPredicts = 0
    /\ nReads = 0
    /\ nRejected = 0

\* ------------------------------------------------------------- filesystem
File(name, src, n) == [name |-> name, content |-> [src |-> src, run |-> n]]
Exists(dir, name) == \E f \in dir : f.name = name
Remove(dir, name) == {f \in dir : f.name # name}
WriteFile(dir, name, src, n) == Remove(dir, name) \cup {File(name, src, n)}
\* os.rename: the destination is replaced
Rename(dir, old, new) ==
    Remove(Remove(dir, new), old) \cup
        {[name |-> new, content |-> f.content] : f \in {g \in dir : g.name = old}}

\* ------------------------------------------------------------ update_phase
\* update_phase runs as six steps of the calling thread; pc names the next one.
UpdateSteps == {"u_status", "u_timestamp", "u_message", "u_current", "u_log", "u_emit"}

Call(t, phase, status, message, ret) ==
    [t EXCEPT !.pc = "u_status",
              !.upd = [phase |-> phase, status |-> status, message |-> message],
              !.ret = ret]

\* the status record after the step at t.pc
UpdateWrite(ps, t) ==
    CASE t.pc = "u_status" ->
            [ps EXCEPT !.phases[t.upd.phase].status = t.upd.status]
      [] t.pc = "u_timestamp" ->
            [ps EXCEPT !.phases[t.upd.phase].timestamp = Now]
      [] t.pc = "u_message" ->
            [ps EXCEPT !.phases[t.upd.phase].message = t.upd.message]
      [] t.pc = "u_current" ->
            [ps EXCEPT !.current_phase = t.upd.phase]
      [] t.pc = "u_log" ->
            [ps EXCEPT !.logs = Append(@, PhaseLog(t.upd))]
      [] OTHER -> ps

UpdateNextPc(t) ==
    CASE t.pc = "u_status" -> "u_timestamp"
      [] t.pc = "u_timestamp" -> "u_message"
      [] t.pc = "u_message" -> "u_current"
      [] t.pc = "u_current" -> "u_log"
      [] t.pc = "u_log" -> "u_emit"
      [] OTHER -> t.ret

\* one step of update_phase by thread t: the new thread state
UpdateAdvance(t) ==
    IF t.pc = "u_emit"
    THEN [t EXCEPT !.pc = t.ret, !.upd = NoUpd, !.ret = ""]
    ELSE [t EXCEPT !.pc = UpdateNextPc(t)]

\* what a step of update_phase sends: add_log emits 'new_log',
\* emit_status_update emits 'status_update'
UpdateOut(ps, t) ==
    CASE t.pc = "u_log" -> [type |-> "new_log", body |-> PhaseLog(t.upd)]
      [] t.pc = "u_emit" -> Snapshot(ps)
      [] OTHER -> NoOut

UpdatePushed(ps, t) == IF t.pc = "u_emit" THEN <<ps>> ELSE pushed

\* add_log called directly: the append and the 'new_log' emit
AddLog(message, level) ==
    /\ pipeline_status' = [pipeline_status EXCEPT !.logs = Append(@, LogEntry(message, level))]
    /\ out' = [type |-> "new_log", body |-> LogEntry(message, level)]

\* ------------------------------------------------------------- upload_file
\* lines 297-304 and 328: a request that fails validation
UploadReject(f) ==
    /\ Requests < MaxRequests
    /\ ~Accepted(f)
    /\ nRejected' = nRejected + 1
    /\ out' = [type |-> "response", route |-> "upload", code |-> 400, file |-> f]
    /\ UNCHANGED <<pipeline_status, raw, processed, model, container, pushed,
                   run, up, cl, pr, nUploads, nClears, nPredicts, nReads>>

\* lines 297-307: a request that passes validation; the loop sets every phase
\* to a fresh pending record.  Triggers are taken one run at a time: the next
\* one arrives when the thread of the previous one has returned.
UploadAccept(f) ==
    /\ up.pc = "idle"
    /\ NoRunActive
    /\ Requests < MaxRequests
    /\ Accepted(f)
    /\ pipeline_status' = [pipeline_status EXCEPT !.phases = [p \in PhaseSet |-> FreshPhase]]
    /\ up' = [up EXCEPT !.pc = "reset_logs", !.file = f]
    /\ nUploads' = nUploads + 1
    /\ out' = NoOut
    /\ UNCHANGED <<raw, processed, model, container, pushed,
                   run, cl, pr, nClears, nPredicts, nReads, nRejected>>

\* line 308
UploadResetLogs ==
    /\ up.pc = "reset_logs"
    /\ pipeline_status' = [pipeline_status EXCEPT !.logs = <<>>]
    /\ up' = [up EXCEPT !.pc = "reset_ready"]
    /\ out' = NoOut
    /\ UNCHANGED <<raw, processed, model, container, pushed, run, cl, pr,
                   nUploads, nClears, nPredicts, nReads, nRejected>>

\* lines 309-311
UploadResetReady ==
    /\ up.pc = "reset_ready"
    /\ pipeline_status' = [pipeline_status EXCEPT !.model_ready = FALSE]
    /\ up' = [up EXCEPT !.pc = "save", !.filename = secure_filename(up.file)]
    /\ out' = NoOut
    /\ UNCHANGED <<raw, processed, model, container, pushed, run, cl, pr,
                   nUploads, nClears, nPredicts, nReads, nRejected>>

\* lines 312-319: the file is stored, update_phase('upload', 'completed') is called
UploadSave ==
    /\ up.pc = "save"
    /\ raw' = WriteFile(raw, up.filename, "upload", nUploads)
    /\ up' = Call(up, "upload", "completed", "File {filename} caricato con successo", "spawn")
    /\ out' = NoOut
    /\ UNCHANGED <<pipeline_status, processed, model, container, pushed, run, cl, pr,
                   nUploads, nClears, nPredicts, nReads, nRejected>>

\* line 319: the steps of update_phase
UploadUpdate ==
    /\ up.pc \in UpdateSteps
    /\ pipeline_status' = UpdateWrite(pipeline_status, up)
    /\ pushed' = UpdatePushed(pipeline_status, up)
    /\ out' = UpdateOut(pipeline_status, up)
    /\ up' = UpdateAdvance(up)
    /\ UNCHANGED <<raw, processed, model, container, run, cl, pr,
                   nUploads, nClears, nPredicts, nReads, nRejected>>

\* lines 322-326: the thread is started and the request returns
UploadSpawn ==
    /\ up.pc = "spawn"
    /\ run' = [run EXCEPT ![nUploads] = [IdleRun EXCEPT !.pc = "start", !.client = up.file,
                                                    !.filename = up.filename]]
    /\ out' = [type |-> "response", route |-> "upload", code |-> 200, file |-> up.filename]
    /\ up' = IdleUp
    /\ UNCHANGED <<pipeline_status, raw, processed, model, container, pushed, cl, pr,
                   nUploads, nClears, nPredicts, nReads, nRejected>>

\* ------------------------------------------------------------ run_pipeline
Counters == <<nUploads, nClears, nPredicts, nReads, nRejected>>
Dirs == <<raw, processed, model>>

SetRun(i, t) == run' = [run EXCEPT ![i] = IF t.pc = "done" THEN DoneRun ELSE t]
Fail(t) == [t EXCEPT !.failed = TRUE]

\* a step of run i that touches nothing but the thread itself
Local(i, t) ==
    /\ SetRun(i, t)
    /\ out' = NoOut
    /\ UNCHANGED <<pipeline_status, Dirs, container, pushed, up, cl, pr, Counters>>

\* a step of run i that is a direct add_log call
Logging(i, message, level, t) ==
    /\ AddLog(message, level)
    /\ SetRun(i, t)
    /\ UNCHANGED <<Dirs, container, pushed, up, cl, pr, Counters>>

\* a step of run i that changes the raw directory
RawStep(i, newraw, t) ==
    /\ raw' = newraw
    /\ SetRun(i, t)
    /\ out' = NoOut
    /\ UNCHANGED <<pipeline_status, processed, model, container, pushed, up, cl, pr, Counters>>

OneShot == {"conversion", "cleaning", "training"}

Image(stage) ==
    CASE stage = "conversion" -> "ml-pipeline-converter"
      [] stage = "cleaning" -> "ml-pipeline-cleaning"
      [] stage = "training" -> "ml-pipeline-training"

\* the exit code is trusted and the output is not looked for
ArtifactAssumed(stage) == TRUE

\* the os.path.exists test on the stage's output (lines 120, 177, 213)
ArtifactExists(stage) ==
    CASE stage = "conversion" -> Exists(raw, CanonCSV)
      [] stage = "cleaning" -> Exists(processed, CleanedName)
      [] stage = "training" -> Exists(model, ModelName)

CompletedMsg(stage) ==
    CASE stage = "conversion" -> "File Excel convertito in CSV"
      [] stage = "cleaning" -> "Dati puliti e trasformati"
      [] stage = "training" -> "Modello addestrato con successo"

MissingMsg(stage) ==
    CASE stage = "conversion" -> "CSV non creato dopo conversione"
      [] stage = "cleaning" -> "File pulito non creato"
      [] stage = "training" -> "Modello non creato"

TimeoutMsg(stage) ==
    CASE stage = "conversion" -> "Timeout durante la conversione"
      [] stage = "cleaning" -> "Timeout durante la pulizia"
      [] stage = "training" -> "Timeout durante il training"

StderrMsg(stage) ==
    CASE stage = "conversion" -> "Errore conversione: {stderr}"
      [] stage = "cleaning" -> "Errore pulizia: {stderr}"
      [] stage = "training" -> "Errore training: {stderr}"

ExecMsg(stage) ==
    CASE stage = "conversion" -> "Errore esecuzione converter: {e}"
      [] stage = "cleaning" -> "Errore esecuzione cleaning: {e}"
      [] stage = "training" -> "Errore esecuzione training: {e}"

\* the cleaning stage left out after the conversion
AfterCompletedSkipCleaning(stage) ==
    CASE stage = "conversion" -> "train_begin"
      [] stage = "cleaning" -> "train_begin"
      [] stage = "training" -> "inf_begin"

\* where run_pipeline goes on after a stage's 'completed' update
AfterCompleted(stage) ==
    CASE stage = "conversion" -> "clean_begin"
      [] stage = "cleaning" -> "train_begin"
      [] stage = "training" -> "inf_begin"

\* a missing return statement: the run falls through to the next stage
AfterErrorFallThrough(stage) == AfterCompleted(stage)

\* where run_pipeline goes on after a stage's 'error' update: the return statement
AfterError(stage) == "done"

\* line 79: which branch the stored name selects
RunStart(i) ==
    /\ run[i].pc = "start"
    /\ Local(i, IF EndsWith(run[i].filename, XLSX)
                THEN Call([run[i] EXCEPT !.stage = "conversion"], "conversion", "running",
                          "Conversione Excel in CSV...", "conv_check_input")
                ELSE IF run[i].filename # CanonCSV
                     THEN [run[i] EXCEPT !.pc = "csv_exists"]
                     ELSE [run[i] EXCEPT !.pc = "clean_begin"])

\* every update_phase call of run_pipeline
RunUpdate(i) ==
    /\ run[i].pc \in UpdateSteps
    /\ pipeline_status' = UpdateWrite(pipeline_status, run[i])
    /\ pushed' = UpdatePushed(pipeline_status, run[i])
    /\ out' = UpdateOut(pipeline_status, run[i])
    /\ SetRun(i, UpdateAdvance(run[i]))
    /\ UNCHANGED <<Dirs, container, up, cl, pr, Counters>>

\* lines 83-92
RunConvCheckInput(i) ==
    /\ run[i].pc = "conv_check_input"
    /\ Local(i, IF ~Exists(raw, run[i].filename)
                THEN Call(Fail(run[i]), "conversion", "error", "File {filename} non trovato",
                          AfterError("conversion"))
                ELSE IF run[i].filename # CanonXLSX
                     THEN [run[i] EXCEPT !.pc = "conv_log_rename"]
                     ELSE [run[i] EXCEPT !.pc = "log_cmd"])

\* line 93
RunConvLogRename(i) ==
    /\ run[i].pc = "conv_log_rename"
    /\ Logging(i, <<"Rinomino {filename} in {expected_name}">>, "info",
               [run[i] EXCEPT !.pc = "conv_exists"])

\* line 96
RunConvExists(i) ==
    /\ run[i].pc = "conv_exists"
    /\ Local(i, [run[i] EXCEPT !.pc = IF Exists(raw, CanonXLSX) THEN "conv_remove"
                                                                ELSE "conv_rename"])

\* line 97: os.remove succeeds, or raises (always when the file is gone)
RunConvRemove(i) ==
    /\ run[i].pc = "conv_remove"
    /\ \/ /\ Exists(raw, CanonXLSX)
          /\ RawStep(i, Remove(raw, CanonXLSX), [run[i] EXCEPT !.pc = "conv_rename"])
       \/ Local(i, [run[i] EXCEPT !.pc = "conv_rename_failed"])

\* lines 98-99: os.rename succeeds, or raises (always when the source is gone)
RunConvRename(i) ==
    /\ run[i].pc = "conv_rename"
    /\ \/ /\ Exists(raw, run[i].filename)
          /\ RawStep(i, Rename(raw, run[i].filename, CanonXLSX),
                     [run[i] EXCEPT !.pc = "log_cmd", !.filename = CanonXLSX])
       \/ Local(i, [run[i] EXCEPT !.pc = "conv_rename_failed"])

\* lines 100-103
RunConvRenameFailed(i) ==
    /\ run[i].pc = "conv_rename_failed"
    /\ Logging(i, <<"Errore nel rinominare il file: {e}">>, "error",
               Call(Fail(run[i]), "conversion", "error", "Errore nel rinominare il file: {e}",
                    AfterError("conversion")))

\* lines 138-142
RunCsvExists(i) ==
    /\ run[i].pc = "csv_exists"
    /\ Local(i, [run[i] EXCEPT !.pc = IF Exists(raw, CanonCSV) THEN "csv_remove"
                                                               ELSE "csv_rename"])

\* line 143
RunCsvRemove(i) ==
    /\ run[i].pc = "csv_remove"
    /\ \/ /\ Exists(raw, CanonCSV)
          /\ RawStep(i, Remove(raw, CanonCSV), [run[i] EXCEPT !.pc = "csv_rename"])
       \/ Local(i, [run[i] EXCEPT !.pc = "csv_rename_failed"])

\* lines 144-145
RunCsvRename(i) ==
    /\ run[i].pc = "csv_rename"
    /\ \/ /\ Exists(raw, run[i].filename)
          /\ RawStep(i, Rename(raw, run[i].filename, CanonCSV),
                     [run[i] EXCEPT !.pc = "csv_log_renamed", !.filename = CanonCSV])
       \/ Local(i, [run[i] EXCEPT !.pc = "csv_rename_failed"])

\* line 146
RunCsvLogRenamed(i) ==
    /\ run[i].pc = "csv_log_renamed"
    /\ Logging(i, <<"Rinominato CSV in {filename}">>, "info",
               [run[i] EXCEPT !.pc = "clean_begin"])

\* lines 147-148: the failure is logged and the run goes on
RunCsvRenameFailed(i) ==
    /\ run[i].pc = "csv_rename_failed"
    /\ Logging(i, <<"Errore nel rinominare CSV: {e}">>, "error",
               [run[i] EXCEPT !.pc = "clean_begin"])

\* line 151
RunCleanBegin(i) ==
    /\ run[i].pc = "clean_begin"
    /\ Local(i, Call([run[i] EXCEPT !.stage = "cleaning"], "cleaning", "running",
                     "Pulizia e trasformazione dati...", "clean_check_input"))

\* lines 154-157
RunCleanCheckInput(i) ==
    /\ run[i].pc = "clean_check_input"
    /\ Local(i, IF ~Exists(raw, run[i].filename)
                THEN Call(Fail(run[i]), "cleaning", "error", "File CSV {filename} non trovato",
                          AfterError("cleaning"))
                ELSE [run[i] EXCEPT !.pc = "makedirs"])

\* line 194
RunTrainBegin(i) ==
    /\ run[i].pc = "train_begin"
    /\ Local(i, Call([run[i] EXCEPT !.stage = "training"], "training", "running",
                     "Addestramento modello ML...", "makedirs"))

\* lines 160 and 197: os.makedirs(..., exist_ok=True) returns, or raises past
\* the stage's own handlers
RunMakedirs(i) ==
    /\ run[i].pc = "makedirs"
    /\ \/ Local(i, [run[i] EXCEPT !.pc = "log_cmd"])
       \/ Local(i, [Fail(run[i]) EXCEPT !.pc = "top_except"])

\* lines 288-289: the handler of the outer try
RunTopExcept(i) ==
    /\ run[i].pc = "top_except"
    /\ Logging(i, <<"Errore nella pipeline: {e}">>, "error", [run[i] EXCEPT !.pc = "done"])

\* lines 107-112, 163-169, 200-205
RunLogCmd(i) ==
    /\ run[i].pc = "log_cmd"
    /\ Logging(i, <<"Esecuzione comando: docker run", Image(run[i].stage)>>, "info",
               [run[i] EXCEPT !.pc = "invoke"])

\* the command line handed to subprocess.run
DockerRun(i, image) ==
    [type |-> "docker_run", image |-> image, by |-> i,
     env |-> IF image = "ml-pipeline-cleaning" THEN run[i].filename ELSE <<>>]

\* lines 114, 171, 207: subprocess.run starts the worker, or raises because it
\* cannot (handlers at 133, 189, 225)
RunInvoke(i) ==
    /\ run[i].pc = "invoke"
    /\ \/ /\ SetRun(i, [run[i] EXCEPT !.pc = "wait", !.rc = "none",
                                      !.invoked[Image(run[i].stage)] = @ + 1])
          /\ out' = DockerRun(i, Image(run[i].stage))
          /\ UNCHANGED <<pipeline_status, Dirs, container, pushed, up, cl, pr, Counters>>
       \/ Local(i, Call(Fail(run[i]), run[i].stage, "error", ExecMsg(run[i].stage),
                        AfterError(run[i].stage)))

\* what the worker did by the time subprocess.run returns or gives up
WorkerOutcomes == {"exit0_written", "exit0_nothing", "nonzero", "timeout"}

\* lines 114-116, 126, 130 (and the same in the other two stages): the worker
\* ends; with "exit0_written" it has written its output file
RunWait(i) ==
    /\ run[i].pc = "wait"
    /\ \E o \in WorkerOutcomes :
          /\ raw' = IF o = "exit0_written" /\ run[i].stage = "conversion"
                    THEN WriteFile(raw, CanonCSV, "converter", i) ELSE raw
          /\ processed' = IF o = "exit0_written" /\ run[i].stage = "cleaning"
                          THEN WriteFile(processed, CleanedName, "cleaning", i) ELSE processed
          /\ model' = IF o = "exit0_written" /\ run[i].stage = "training"
                      THEN WriteFile(model, ModelName, "training", i) ELSE model
          /\ SetRun(i, CASE o \in {"exit0_written", "exit0_nothing"} ->
                               [run[i] EXCEPT !.pc = "log_output", !.rc = "0"]
                         [] o = "nonzero" ->
                               [Fail(run[i]) EXCEPT !.pc = "log_stderr", !.rc = "1"]
                         [] o = "timeout" ->
                               Call(Fail(run[i]), run[i].stage, "error",
                                    TimeoutMsg(run[i].stage), AfterError(run[i].stage)))
    /\ out' = NoOut
    /\ UNCHANGED <<pipeline_status, container, pushed, up, cl, pr, Counters>>

\* lines 117, 174, 210
RunLogOutput(i) ==
    /\ run[i].pc = "log_output"
    /\ Logging(i, <<"output: {stdout}", Image(run[i].stage)>>, "info",
               [run[i] EXCEPT !.pc = "check_artifact"])

\* lines 119-125, 176-181, 212-217
RunCheckArtifact(i) ==
    /\ run[i].pc = "check_artifact"
    /\ Local(i, IF ArtifactExists(run[i].stage)
                THEN Call([run[i] EXCEPT !.filename = IF run[i].stage = "conversion"
                                                      THEN CanonCSV ELSE @],
                          run[i].stage, "completed", CompletedMsg(run[i].stage),
                          AfterCompleted(run[i].stage))
                ELSE Call(Fail(run[i]), run[i].stage, "error", MissingMsg(run[i].stage),
                          AfterError(run[i].stage)))

\* the failed worker is started again instead of the phase being marked
RunLogStderrRetry(i) ==
    /\ run[i].pc = "log_stderr"
    /\ Logging(i, <<"error: {stderr}", Image(run[i].stage)>>, "error",
               [run[i] EXCEPT !.pc = "invoke"])

\* lines 127-129, 183-185, 219-221
RunLogStderr(i) ==
    /\ run[i].pc = "log_stderr"
    /\ Logging(i, <<"error: {stderr}", Image(run[i].stage)>>, "error",
               Call(run[i], run[i].stage, "error", StderrMsg(run[i].stage),
                    AfterError(run[i].stage)))

\* ------------------------------------------------- run_pipeline: inference
\* docker stop ml_inference_service, when the daemon carries it out
Stopped(c) == IF c.state = "up" THEN [c EXCEPT !.state = "exited"] ELSE c
\* docker rm ml_inference_service (no -f): refuses a running container
Removed(c) == IF c.state = "exited" THEN [state |-> "absent", by |-> 0] ELSE c

\* docker network ls --filter name=ml_pipeline_network: the lines of stdout
NetworkListings ==
    {<<>>, <<"ml_pipeline_network">>, <<"progsdcc_ml_pipeline_network", "ml_pipeline_network">>}
DefaultNetwork == "ml_pipeline_network"
\* stdout.strip().split('\n'): an empty output gives the one-element list ['']
SplitLines(lines) == IF lines = <<>> THEN <<"">> ELSE lines

\* line 230
RunInfBegin(i) ==
    /\ run[i].pc = "inf_begin"
    /\ Local(i, Call([run[i] EXCEPT !.stage = "inference"], "inference", "running",
                     "Avvio servizio di inferenza...", "inf_stop"))

\* a step of run i on the docker daemon
DockerStep(i, c, t) ==
    /\ container' = c
    /\ SetRun(i, t)
    /\ out' = NoOut
    /\ UNCHANGED <<pipeline_status, Dirs, pushed, up, cl, pr, Counters>>

\* line 233: the result of docker stop is ignored; subprocess.run itself may raise
RunInfStop(i) ==
    /\ run[i].pc = "inf_stop"
    /\ \/ DockerStep(i, Stopped(container), [run[i] EXCEPT !.pc = "inf_rm"])
       \/ DockerStep(i, container, [run[i] EXCEPT !.pc = "inf_rm"])
       \/ DockerStep(i, container, [Fail(run[i]) EXCEPT !.pc = "top_except"])

\* line 234
RunInfRm(i) ==
    /\ run[i].pc = "inf_rm"
    /\ \/ DockerStep(i, Removed(container), [run[i] EXCEPT !.pc = "inf_network"])
       \/ DockerStep(i, container, [run[i] EXCEPT !.pc = "inf_network"])
       \/ DockerStep(i, container, [Fail(run[i]) EXCEPT !.pc = "top_except"])

\* lines 239-243: the networks are listed; subprocess.run itself may raise
RunInfNetwork(i) ==
    /\ run[i].pc = "inf_network"
    /\ \/ \E listing \in NetworkListings :
             Local(i, [run[i] EXCEPT !.pc = "inf_log_network",
                                     !.networks = SplitLines(listing)])
       \/ Local(i, [run[i] EXCEPT !.pc = "inf_except"])

\* lines 246-251 with the fallback logged at level 'info'
RunInfLogNetworkQuiet(i) ==
    /\ run[i].pc = "inf_log_network"
    /\ LET networks == run[i].networks IN
       IF networks # <<>> /\ networks[1] # ""
       THEN Logging(i, <<"Trovata rete Docker: {network_name}", networks[1]>>, "info",
                    [run[i] EXCEPT !.pc = "inf_log_cmd", !.network = networks[1]])
       ELSE Logging(i, <<"Nessuna rete trovata, utilizzo default: {network_name}",
                         DefaultNetwork>>, "info",
                    [run[i] EXCEPT !.pc = "inf_log_cmd", !.network = DefaultNetwork])

\* lines 246-251: the first listed network, or the default with a warning
RunInfLogNetwork(i) ==
    /\ run[i].pc = "inf_log_network"
    /\ LET networks == run[i].networks IN
       IF networks # <<>> /\ networks[1] # ""
       THEN Logging(i, <<"Trovata rete Docker: {network_name}", networks[1]>>, "info",
                    [run[i] EXCEPT !.pc = "inf_log_cmd", !.network = networks[1]])
       ELSE Logging(i, <<"Nessuna rete trovata, utilizzo default: {network_name}",
                         DefaultNetwork>>, "warning",
                    [run[i] EXCEPT !.pc = "inf_log_cmd", !.network = DefaultNetwork])

\* lines 253-260
RunInfLogCmd(i) ==
    /\ run[i].pc = "inf_log_cmd"
    /\ Logging(i, <<"Esecuzione comando: docker run -d", "ml-pipeline-inference">>, "info",
               [run[i] EXCEPT !.pc = "inf_launch"])

\* line 262: docker run -d --name ml_inference_service.  The name must be free;
\* a launched worker is up or has already exited.
RunInfLaunch(i) ==
    /\ run[i].pc = "inf_launch"
    /\ \/ /\ container.state = "absent"
          /\ \E st \in {"up", "exited"} : container' = [state |-> st, by |-> i]
          /\ SetRun(i, [run[i] EXCEPT !.pc = "inf_probe",
                                      !.invoked["ml-pipeline-inference"] = @ + 1])
          /\ out' = [type |-> "docker_run", image |-> "ml-pipeline-inference", by |-> i,
                     env |-> <<>>, network |-> run[i].network]
          /\ UNCHANGED <<pipeline_status, Dirs, pushed, up, cl, pr, Counters>>
       \/ /\ SetRun(i, [Fail(run[i]) EXCEPT !.pc = "inf_log_err",
                                            !.invoked["ml-pipeline-inference"] = @ + 1])
          /\ out' = [type |-> "docker_run", image |-> "ml-pipeline-inference", by |-> i,
                     env |-> <<>>, network |-> run[i].network]
          /\ UNCHANGED <<pipeline_status, Dirs, container, pushed, up, cl, pr, Counters>>
       \/ Local(i, [Fail(run[i]) EXCEPT !.pc = "inf_except"])

\* lines 265-271: the request to the worker's endpoint
RunInfProbe(i) ==
    /\ run[i].pc = "inf_probe"
    /\ \/ /\ container.state = "up"
          /\ Local(i, Call(run[i], "inference", "completed", "Servizio attivo su porta 5000",
                           "inf_ready"))
       \/ Local(i, [run[i] EXCEPT !.pc = "inf_ps"])

\* the output of docker ps is not looked at
RunInfPsAnyStatus(i) ==
    /\ run[i].pc = "inf_ps"
    /\ Local(i, Call(run[i], "inference", "completed",
                     "Servizio in avvio su porta 5000", "inf_ready"))

\* lines 273-281: docker ps lists the container's status when it is running
RunInfPs(i) ==
    /\ run[i].pc = "inf_ps"
    /\ \/ Local(i, IF container.state = "up"
                   THEN Call(run[i], "inference", "completed",
                             "Servizio in avvio su porta 5000", "inf_ready")
                   ELSE Call(Fail(run[i]), "inference", "error",
                             "Servizio non si e' avviato correttamente", "done"))
       \/ Local(i, [Fail(run[i]) EXCEPT !.pc = "inf_except"])

\* lines 270 and 279
RunInfReady(i) ==
    /\ run[i].pc = "inf_ready"
    /\ pipeline_status' = [pipeline_status EXCEPT !.model_ready = TRUE]
    /\ SetRun(i, [run[i] EXCEPT !.pc = "done"])
    /\ out' = NoOut
    /\ UNCHANGED <<Dirs, container, pushed, up, cl, pr, Counters>>

\* lines 283-284
RunInfLogErr(i) ==
    /\ run[i].pc = "inf_log_err"
    /\ Logging(i, <<"Inference error: {stderr}">>, "error",
               Call(run[i], "inference", "error", "Errore inferenza: {stderr}", "done"))

\* lines 285-286
RunInfExcept(i) ==
    /\ run[i].pc = "inf_except"
    /\ Local(i, Call(Fail(run[i]), "inference", "error", "Errore avvio inferenza: {e}", "done"))

RunStep(i) ==
    \/ RunStart(i) \/ RunUpdate(i)
    \/ RunConvCheckInput(i) \/ RunConvLogRename(i) \/ RunConvExists(i)
    \/ RunConvRemove(i) \/ RunConvRename(i) \/ RunConvRenameFailed(i)
    \/ RunCsvExists(i) \/ RunCsvRemove(i) \/ RunCsvRename(i)
    \/ RunCsvLogRenamed(i) \/ RunCsvRenameFailed(i)
    \/ RunCleanBegin(i) \/ RunCleanCheckInput(i) \/ RunTrainBegin(i)
    \/ RunMakedirs(i) \/ RunTopExcept(i) \/ RunLogCmd(i) \/ RunInvoke(i)
    \/ RunWait(i) \/ RunLogOutput(i) \/ RunCheckArtifact(i) \/ RunLogStderr(i)
    \/ RunInfBegin(i) \/ RunInfStop(i) \/ RunInfRm(i) \/ RunInfNetwork(i)
    \/ RunInfLogNetwork(i) \/ RunInfLogCmd(i) \/ RunInfLaunch(i) \/ RunInfProbe(i)
    \/ RunInfPs(i) \/ RunInfReady(i) \/ RunInfLogErr(i) \/ RunInfExcept(i)

\* -------------------------------------------------------------- clear_data
Folders == <<"raw", "processed", "model">>
Folder(k) == CASE k = 1 -> raw [] k = 2 -> processed [] k = 3 -> model

ClearFrame == UNCHANGED <<run, up, pr, nUploads, nPredicts, nReads, nRejected>>

\* the handler of line 434
ClearFail ==
    /\ cl' = IdleCl
    /\ out' = [type |-> "response", route |-> "clear", code |-> 500]

\* line 412: the request arrives; the result of docker stop is ignored, but
\* subprocess.run itself may raise
ClearStop ==
    /\ cl.pc = "idle"
    /\ Requests < MaxRequests
    /\ nClears' = nClears + 1
    /\ \/ /\ container' \in {Stopped(container), container}
          /\ cl' = [cl EXCEPT !.pc = "rm"]
          /\ out' = NoOut
       \/ /\ ClearFail
          /\ UNCHANGED container
    /\ UNCHANGED <<pipeline_status, Dirs, pushed>>
    /\ ClearFrame

\* line 413
ClearRm ==
    /\ cl.pc = "rm"
    /\ \/ /\ container' \in {Removed(container), container}
          /\ cl' = [cl EXCEPT !.pc = "unlink", !.k = 1]
          /\ out' = NoOut
       \/ /\ ClearFail
          /\ UNCHANGED container
    /\ UNCHANGED <<pipeline_status, Dirs, pushed, nClears>>
    /\ ClearFrame

\* lines 417-423: every file of the next folder is unlinked; os.unlink may raise
ClearUnlink ==
    /\ cl.pc = "unlink"
    /\ \/ /\ raw' = IF cl.k = 1 THEN {} ELSE raw
          /\ processed' = IF cl.k = 2 THEN {} ELSE processed
          /\ model' = IF cl.k = 3 THEN {} ELSE model
          /\ cl' = IF cl.k < Len(Folders) THEN [cl EXCEPT !.k = cl.k + 1]
                                          ELSE [cl EXCEPT !.pc = "reset_phases", !.k = 0]
          /\ out' = NoOut
       \/ /\ Folder(cl.k) # {}
          /\ ClearFail
          /\ UNCHANGED Dirs
    /\ UNCHANGED <<pipeline_status, container, pushed, nClears>>
    /\ ClearFrame

\* lines 426-427
ClearResetPhases ==
    /\ cl.pc = "reset_phases"
    /\ pipeline_status' = [pipeline_status EXCEPT !.phases = [p \in PhaseSet |-> FreshPhase]]
    /\ cl' = [cl EXCEPT !.pc = "reset_logs"]
    /\ out' = NoOut
    /\ UNCHANGED <<Dirs, container, pushed, nClears>>
    /\ ClearFrame

\* line 428
ClearResetLogs ==
    /\ cl.pc = "reset_logs"
    /\ pipeline_status' = [pipeline_status EXCEPT !.logs = <<>>]
    /\ cl' = [cl EXCEPT !.pc = "reset_ready"]
    /\ out' = NoOut
    /\ UNCHANGED <<Dirs, container, pushed, nClears>>
    /\ ClearFrame

\* line 429
ClearResetReady ==
    /\ cl.pc = "reset_ready"
    /\ pipeline_status' = [pipeline_status EXCEPT !.model_ready = FALSE]
    /\ cl' = [cl EXCEPT !.pc = "reset_current"]
    /\ out' = NoOut
    /\ UNCHANGED <<Dirs, container, pushed, nClears>>
    /\ ClearFrame

\* line 430
ClearResetCurrent ==
    /\ cl.pc = "reset_current"
    /\ pipeline_status' = [pipeline_status EXCEPT !.current_phase = "idle"]
    /\ cl' = [cl EXCEPT !.pc = "emit"]
    /\ out' = NoOut
    /\ UNCHANGED <<Dirs, container, pushed, nClears>>
    /\ ClearFrame

\* line 432
ClearEmit ==
    /\ cl.pc = "emit"
    /\ pushed' = <<pipeline_status>>
    /\ out' = Snapshot(pipeline_status)
    /\ cl' = [cl EXCEPT !.pc = "return"]
    /\ UNCHANGED <<pipeline_status, Dirs, container, nClears>>
    /\ ClearFrame

\* line 433
ClearReturn ==
    /\ cl.pc = "return"
    /\ cl' = IdleCl
    /\ out' = [type |-> "response", route |-> "clear", code |-> 200]
    /\ UNCHANGED <<pipeline_status, Dirs, container, pushed, nClears>>
    /\ ClearFrame

\* ------------------------------------------------ get_status, handle_connect
GetStatus ==
    /\ Requests < MaxRequests
    /\ nReads' = nReads + 1
    /\ out' = Snapshot(pipeline_status)
    /\ UNCHANGED <<pipeline_status, Dirs, container, pushed, run, up, cl, pr,
                   nUploads, nClears, nPredicts, nRejected>>

HandleConnect ==
    /\ Requests < MaxRequests
    /\ nReads' = nReads + 1
    /\ out' = Snapshot(pipeline_status)
    /\ UNCHANGED <<pipeline_status, Dirs, container, pushed, run, up, cl, pr,
                   nUploads, nClears, nPredicts, nRejected>>

\* ----------------------------------------------------------------- predict
\* what the inference worker sends back when it answers: a JSON body (with a
\* success or an error status of its own) or a body that is not JSON
WorkerReplies ==
    {[status |-> 200, json |-> TRUE, body |-> "prediction"],
     [status |-> 400, json |-> TRUE, body |-> "worker error"],
     [status |-> 500, json |-> FALSE, body |-> "<html>"]}

PredictResponse(code, worker, body) ==
    [type |-> "response", route |-> "predict", code |-> code, worker |-> worker, body |-> body]

PredictFrame ==
    UNCHANGED <<Dirs, container, pushed, run, up, cl, nUploads, nClears, nReads, nRejected>>

\* lines 365-371 and 375-376.  request.json raises (500); requests.post raises
\* because the worker cannot be reached; or the worker, which is up, answers:
\* a JSON body is relayed, and on any other body response.json() raises
\* requests' JSONDecodeError, a RequestException since requests 2.27 (handler
\* at 372) and a plain ValueError before (handler at 375).
PredictRequest ==
    /\ pr.pc = "idle"
    /\ Requests < MaxRequests
    /\ nPredicts' = nPredicts + 1
    /\ \/ /\ out' = PredictResponse(500, "not called", "error")
          /\ UNCHANGED pr
       \/ /\ out' = NoOut
          /\ pr' = [pc |-> "log", worker |-> "unreachable"]
       \/ /\ container.state = "up"
          /\ \E reply \in WorkerReplies :
                \/ /\ reply.json
                   /\ out' = PredictResponse(200, "json", reply.body)
                   /\ UNCHANGED pr
                \/ /\ ~reply.json
                   /\ out' = NoOut
                   /\ pr' = [pc |-> "log", worker |-> "not json"]
                \/ /\ ~reply.json
                   /\ out' = PredictResponse(500, "not json", "error")
                   /\ UNCHANGED pr
    /\ UNCHANGED pipeline_status
    /\ PredictFrame

\* line 373
PredictLog ==
    /\ pr.pc = "log"
    /\ AddLog(<<"Errore chiamata inferenza: {e}">>, "error")
    /\ pr' = [pr EXCEPT !.pc = "respond"]
    /\ UNCHANGED nPredicts
    /\ PredictFrame

\* line 374
PredictUnavailable ==
    /\ pr.pc = "respond"
    /\ out' = PredictResponse(503, pr.worker, "Servizio di inferenza non disponibile")
    /\ pr' = IdlePr
    /\ UNCHANGED <<pipeline_status, nPredicts>>
    /\ PredictFrame

\* ------------------------------------------------------------ specification
Upload == \E f \in ClientFiles : UploadReject(f) \/ UploadAccept(f)

UploadStep ==
    \/ UploadResetLogs \/ UploadResetReady
    \/ UploadSave \/ UploadUpdate \/ UploadSpawn

ClearStep ==
    \/ ClearStop \/ ClearRm \/ ClearUnlink
    \/ ClearResetPhases \/ ClearResetLogs \/ ClearResetReady \/ ClearResetCurrent
    \/ ClearEmit \/ ClearReturn

PredictStep == PredictRequest \/ PredictLog \/ PredictUnavailable

\* Upload triggers, the runs they start and the readers of the status record.
Next ==
    \/ Upload
    \/ UploadStep
    \/ \E i \in Runs : RunStep(i)
    \/ GetStatus
    \/ HandleConnect

Spec == Init /\ [][Next]_vars

\* Upload triggers, their runs and calls of the predict proxy.
NextPredict ==
    \/ Upload
    \/ UploadStep
    \/ \E i \in Runs : RunStep(i)
    \/ PredictStep

SpecPredict == Init /\ [][NextPredict]_vars

\* Upload triggers, their runs and clear requests, one operation after the
\* other: a clear is served when no upload and no run is in progress, and an
\* upload when no clear is.
UploadOutsideClear == cl.pc = "idle" /\ Upload
ClearAtRest == up.pc = "idle" /\ NoRunActive /\ ClearStep

NextClear ==
    \/ UploadOutsideClear
    \/ UploadStep
    \/ \E i \in Runs : RunStep(i)
    \/ ClearAtRest

SpecClear == Init /\ [][NextClear]_vars

\* Clear requests arriving at any moment of an upload or of a run.  Of the
\* possible schedules, those in which, while the clear handler is at work, the
\* other threads take steps of update_phase only.
UploadStepOutsideClear == cl.pc = "idle" /\ UploadStep
RunStepOutsideClear(i) == cl.pc = "idle" /\ RunStep(i)

NextRace ==
    \/ UploadOutsideClear
    \/ UploadStepOutsideClear
    \/ UploadUpdate
    \/ \E i \in Runs : RunStepOutsideClear(i)
    \/ \E i \in Runs : RunUpdate(i)
    \/ ClearStep

SpecRace == Init /\ [][NextRace]_vars

\* ------------------------------------------------------------------ claims
Status(ps, p) == ps.phases[p].status
Index(p) == CHOOSE k \in 1..Len(Phases) : Phases[k] = p
\* every status record a reader can hold: the record itself, the snapshot
\* just sent, the snapshot last broadcast
Observed ==
    {pipeline_status}
        \cup (IF out.type = "snapshot" THEN {out.body} ELSE {})
        \cup {pushed[k] : k \in DOMAIN pushed}

\* a reset of the status record is being performed by this step
ResetStep ==
    \/ up.pc = "idle" /\ up'.pc = "reset_logs"
    \/ cl.pc = "reset_phases" /\ cl'.pc = "reset_logs"

\* C1: in the status record and in every snapshot returned or pushed,
\* model_ready is true exactly when the inference phase is 'completed'.
C1_ModelReadyIffInferenceCompleted ==
    \A ps \in Observed : ps.model_ready <=> (Status(ps, "inference") = "completed")

\* C2: once a phase is 'error', every phase after it in the fixed sequence is
\* 'pending' (and stays so until the next reset).
C2_ErrorLeavesLaterPhasesPending ==
    \A k \in 1..Len(Phases) : \A m \in 1..Len(Phases) :
        (k < m /\ Status(pipeline_status, Phases[k]) = "error")
            => Status(pipeline_status, Phases[m]) = "pending"

\* C2 witness: a run has ended with the cleaning phase in error.
C2_Witness ==
    /\ run[1].pc = "done"
    /\ Status(pipeline_status, "conversion") = "completed"
    /\ Status(pipeline_status, "cleaning") = "error"
    /\ Status(pipeline_status, "training") = "pending"

\* C3: apart from resets, a phase's status changes only pending -> running,
\* running -> completed or running -> error (the upload phase included).
C3_OnlyForwardTransitions ==
    [][ResetStep \/ \A p \in PhaseSet :
            \/ Status(pipeline_status', p) = Status(pipeline_status, p)
            \/ <<Status(pipeline_status, p), Status(pipeline_status', p)>> \in
                  {<<"pending", "running">>, <<"running", "completed">>,
                   <<"running", "error">>}]_vars

\* A status record is whole when each phase's status, timestamp and message
\* and the log entry come from one update, and a running phase is the current one.
Whole(ps) ==
    \A p \in PhaseSet :
        LET ph == ps.phases[p] IN
        /\ (ph.status = "pending") <=> (ph.timestamp = "None")
        /\ (ph.status = "pending") <=> (ph.message = "")
        /\ ph.status = "running" => ps.current_phase = p
        /\ ph.status # "pending" =>
              \E k \in 1..Len(ps.logs) :
                  ps.logs[k] = PhaseLog([phase |-> p, status |-> ph.status,
                                         message |-> ph.message])

\* C4: no snapshot returned to a status query, sent at connect time or pushed
\* is a partially updated record.
C4_SnapshotsAreWhole ==
    /\ out.type = "snapshot" => Whole(out.body)
    /\ \A k \in DOMAIN pushed : Whole(pushed[k])

\* C5: when the reset of upload_file (lines 306-309) or of clear_data (lines
\* 426-430) has been carried out, the status record is the initial one.
C5_ResetYieldsInitialStatus ==
    /\ up.pc = "save" => pipeline_status = InitialStatus
    /\ cl.pc = "emit" => pipeline_status = InitialStatus

\* the file a one-shot stage is expected to leave behind
C6_Produced(stage) ==
    \/ stage = "conversion" /\ \E f \in raw : f.name = CanonCSV
    \/ stage = "cleaning" /\ \E f \in processed : f.name = CleanedName
    \/ stage = "training" /\ \E f \in model : f.name = ModelName

C6_Next(stage) == Phases[Index(stage) + 1]

\* C6: a one-shot stage is marked 'completed' only after exit code 0 with its
\* artifact present; exit code 0 with the artifact absent gives 'error' with
\* the missing-output message, the run ends and the next phase stays 'pending'.
C6_CompletedOnlyWithArtifact ==
    [][\A i \in Runs :
          /\ (run[i].pc # "u_status" /\ run'[i].pc = "u_status"
                /\ run'[i].upd.phase \in OneShot /\ run'[i].upd.status = "completed")
                => (run[i].rc = "0" /\ C6_Produced(run'[i].upd.phase))
          /\ \A s \in OneShot :
                (Status(pipeline_status, s) # "completed"
                    /\ Status(pipeline_status', s) = "completed")
                    => \E j \in Runs : /\ run[j].pc = "u_status"
                                       /\ run[j].upd.phase = s
                                       /\ run[j].upd.status = "completed"
                                       /\ run[j].rc = "0"
          /\ (run[i].pc = "check_artifact" /\ run[i].rc = "0"
                /\ ~C6_Produced(run[i].stage) /\ run'[i] # run[i])
                => /\ run'[i].upd = [phase |-> run[i].stage, status |-> "error",
                                     message |-> MissingMsg(run[i].stage)]
                   /\ run'[i].ret = "done"
          /\ \A s \in OneShot :
                (Status(pipeline_status', s) = "error"
                    /\ pipeline_status'.phases[s].message = MissingMsg(s))
                    => Status(pipeline_status', C6_Next(s)) = "pending"]_vars

\* C6 witness: the cleaning worker exited 0 without leaving the cleaned file.
C6_Witness ==
    /\ run[1].pc = "done"
    /\ Status(pipeline_status, "conversion") = "completed"
    /\ Status(pipeline_status, "cleaning") = "error"
    /\ pipeline_status.phases["cleaning"].message = "File pulito non creato"
    /\ Status(pipeline_status, "training") = "pending"
    /\ ~C6_Produced("cleaning")

\* C7: a run invokes each stage worker at most once, and none after its
\* first failure.
C7_FailFastNoRetry ==
    [][\A i \in Runs : \A w \in Workers :
          /\ run'[i].invoked[w] <= 1
          /\ run[i].failed => run'[i].invoked[w] <= run[i].invoked[w]]_vars

\* C7 witness: a run whose cleaning worker failed after the converter ran.
C7_Witness ==
    \E i \in Runs :
        /\ run[i].failed
        /\ run[i].pc = "u_emit"
        /\ run[i].upd.phase = "cleaning"
        /\ run[i].invoked["ml-pipeline-converter"] = 1
        /\ run[i].invoked["ml-pipeline-cleaning"] = 1
        /\ run[i].invoked["ml-pipeline-training"] = 0

\* C8: an exception that reaches the handler of the outer try leaves the phase
\* that was running in 'error'.
C8_TopLevelExceptionMarksError ==
    [][\A i \in Runs :
          (run[i].pc = "top_except" /\ run'[i].pc = "done")
              => Status(pipeline_status', run[i].stage) = "error"]_vars

\* C9: the format decided on the client file name and the one decided on the
\* stored name agree, and the cleaning worker of an Excel upload's run (and
\* of no other) is invoked after the converter.
C9_ConversionIffExcel ==
    /\ up.pc \in {"save", "spawn"} =>
          (EndsWith(up.file, XLSX) <=> EndsWith(up.filename, XLSX))
    /\ (out.type = "docker_run" /\ out.image = "ml-pipeline-cleaning") =>
          (EndsWith(run[out.by].client, XLSX)
              <=> run[out.by].invoked["ml-pipeline-converter"] = 1)

\* C10: the cleaning worker is always invoked with DATASET_FILE set to the
\* canonical CSV name, and a file of that name is then in the raw folder.
C10_CleaningGetsCanonicalName ==
    (out.type = "docker_run" /\ out.image = "ml-pipeline-cleaning") =>
        (out.env = CanonCSV /\ Exists(raw, CanonCSV))

\* the name upload_file stored the file of run i under
C11_Stored(i) == secure_filename(run[i].client)

\* C11: when the converter is invoked for an Excel upload stored under another
\* name than the canonical one, the raw folder holds that upload under the
\* canonical Excel name (whatever was there before) and nothing under the
\* name it was stored with; a failed rename ends the run with the conversion
\* phase in error and the converter never invoked.
C11_ExcelRenamedBeforeConversion ==
    /\ (out.type = "docker_run" /\ out.image = "ml-pipeline-converter"
            /\ C11_Stored(out.by) # CanonXLSX) =>
          /\ File(CanonXLSX, "upload", out.by) \in raw
          /\ \A f \in raw : f.name = CanonXLSX => f = File(CanonXLSX, "upload", out.by)
          /\ ~Exists(raw, C11_Stored(out.by))
    /\ \A i \in Runs :
          /\ run[i].pc = "conv_rename_failed" => run[i].invoked["ml-pipeline-converter"] = 0
          /\ (run[i].pc \in UpdateSteps
                /\ run[i].upd.message = "Errore nel rinominare il file: {e}")
                => /\ run[i].upd.phase = "conversion"
                   /\ run[i].upd.status = "error"
                   /\ run[i].ret = "done"
                   /\ run[i].invoked["ml-pipeline-converter"] = 0

\* run i's own inference worker is running: its launch succeeded and it
\* answers a probe (the request to its endpoint or the docker ps listing)
C12_WorkerUp(i) == container = [state |-> "up", by |-> i]

\* C12: the 'completed' update of inference is issued only by a run that
\* launched its worker and at the moment a probe of it succeeds, and
\* model_ready is set only by the statement that follows that update; a failed
\* launch or two failed probes give 'error', and model_ready is false
\* whenever inference is in error.
C12_ReadyOnlyAfterLaunchAndProbe ==
    [][/\ \A i \in Runs :
            /\ (run[i].pc \notin UpdateSteps /\ run'[i].pc = "u_status"
                  /\ run'[i].upd.phase = "inference" /\ run'[i].upd.status = "completed")
                  => /\ C12_WorkerUp(i)
                     /\ run[i].invoked["ml-pipeline-inference"] = 1
                     /\ run'[i].ret = "inf_ready"
            /\ (run[i].pc # "inf_ready" /\ run'[i].pc = "inf_ready")
                  => /\ run[i].pc = "u_emit"
                     /\ run[i].upd.phase = "inference"
                     /\ run[i].upd.status = "completed"
            /\ (run[i].pc \in {"inf_log_err", "inf_except"} /\ run'[i] # run[i])
                  => /\ run'[i].upd.phase = "inference"
                     /\ run'[i].upd.status = "error"
                     /\ run'[i].ret = "done"
            /\ (run[i].pc = "inf_launch" /\ run'[i] # run[i] /\ container' = container)
                  => run'[i].pc \in {"inf_log_err", "inf_except"}
            /\ (run[i].pc = "inf_ps" /\ run'[i] # run[i] /\ ~C12_WorkerUp(i))
                  => \/ run'[i].pc = "inf_except"
                     \/ /\ run'[i].upd.phase = "inference"
                        /\ run'[i].upd.status = "error"
                        /\ run'[i].ret = "done"
       /\ (~pipeline_status.model_ready /\ pipeline_status'.model_ready)
            => \E i \in Runs : run[i].pc = "inf_ready"
       /\ Status(pipeline_status', "inference") = "error" => ~pipeline_status'.model_ready]_vars

\* C12 witness: the request to the worker failed, docker ps reported it Up,
\* and the run ended with inference completed and model_ready set.
C12_Witness ==
    /\ pipeline_status.model_ready
    /\ Status(pipeline_status, "inference") = "completed"
    /\ pipeline_status.phases["inference"].message = "Servizio in avvio su porta 5000"
    /\ run[1].pc = "done"
    /\ C12_WorkerUp(1)

\* a request the upload route has to refuse: no file part, an empty file name,
\* or a name ending in neither .xlsx nor .csv
C13_Invalid(f) ==
    \/ f = NoFilePart
    \/ f = <<>>
    \/ /\ ~(\E k \in 0..Len(f) : f = SubSeq(f, 1, k) \o XLSX)
       /\ ~(\E k \in 0..Len(f) : f = SubSeq(f, 1, k) \o CSV)

\* C13: an upload request that is invalid gets the 400 response and leaves the
\* status record, the folders, the broadcast and the runs as they were; no
\* invalid request ever enters the accepting branch.
C13_RejectedUploadChangesNothing ==
    [][/\ (nRejected' # nRejected) =>
            /\ out' = [type |-> "response", route |-> "upload", code |-> 400,
                       file |-> out'.file]
            /\ C13_Invalid(out'.file)
            /\ UNCHANGED <<pipeline_status, raw, processed, model, container, pushed, run, up>>
       /\ (up.pc = "idle" /\ up'.pc # "idle") => ~C13_Invalid(up'.file)
       /\ \A i \in Runs : (run[i].pc = "idle" /\ run'[i].pc # "idle")
            => ~C13_Invalid(run'[i].client)]_vars

\* C13 witness: notes.txt is refused after a run has left its traces in the
\* status record.
C13_Witness ==
    /\ out = [type |-> "response", route |-> "upload", code |-> 400, file |-> NotesTxt]
    /\ run[1].pc = "done"
    /\ pipeline_status # InitialStatus

\* no request handler and no run is in the middle of its work
C14_Quiescent == up.pc = "idle" /\ cl.pc = "idle" /\ pr.pc = "idle" /\ NoRunActive

\* C14: whenever no operation is in progress, the snapshot last pushed to the
\* subscribers is the current status record (nothing has been pushed only
\* while the record is still the initial one).
C14_LastPushEqualsRecord ==
    C14_Quiescent =>
        \/ pushed = <<pipeline_status>>
        \/ pushed = <<>> /\ pipeline_status = InitialStatus

\* C15: the predict proxy answers 503 exactly when the worker could not be
\* reached, 500 for every other fault, and 200 with the worker's body when
\* the worker answered with JSON.
C15_PredictDistinguishesUnreachable ==
    (out.type = "response" /\ out.route = "predict") =>
        /\ out.code \in {200, 500, 503}
        /\ (out.code = 503) <=> (out.worker = "unreachable")
        /\ (out.code = 200) <=> (out.worker = "json")
        /\ out.worker = "json" =>
              \E reply \in WorkerReplies : reply.json /\ out.body = reply.body

\* C16: when clear has answered with success, the inference worker's container
\* is gone, the three folders are empty, the status record is the reset one
\* and that record is the last snapshot broadcast.
C16_ClearLeavesNothing ==
    out = [type |-> "response", route |-> "clear", code |-> 200] =>
        /\ container.state = "absent"
        /\ raw = {} /\ processed = {} /\ model = {}
        /\ pipeline_status = InitialStatus
        /\ pushed = <<InitialStatus>>

\* C17: a run that returns without having met a failure leaves every one of
\* the five phases 'completed' (nothing but a new trigger changes the record
\* afterwards, so this is what the status query reports from then on).
C17_UnfailedRunCompletesEveryPhase ==
    [][\A i \in Runs :
          (run[i].pc # "done" /\ run'[i].pc = "done" /\ ~run[i].failed)
              => \A p \in PhaseSet : Status(pipeline_status', p) = "completed"]_vars

\* the log entries written by update_phase since the logs were last emptied
C18_Updates == {k \in 1..Len(pipeline_status.logs) : pipeline_status.logs[k].message[1] = "Fase"}
C18_LastUpdate == pipeline_status.logs[CHOOSE k \in C18_Updates : \A m \in C18_Updates : m <= k]
C18_AtRest ==
    up.pc \notin UpdateSteps /\ cl.pc = "idle" /\ \A i \in Runs : run[i].pc \notin UpdateSteps

\* C18: with no update and no clear in progress, current_phase names the phase
\* of the most recent update, and it is 'idle' only when no update has been
\* made since the last reset (no update is logged and every phase is pending).
C18_CurrentPhaseIsLastUpdated ==
    C18_AtRest =>
        /\ C18_Updates # {} => pipeline_status.current_phase = C18_LastUpdate.message[2]
        /\ pipeline_status.current_phase = "idle" =>
              /\ C18_Updates = {}
              /\ \A p \in PhaseSet : Status(pipeline_status, p) = "pending"

\* the warning-level entries of a status record's logs
C19_Warnings(ps) == Cardinality({k \in 1..Len(ps.logs) : ps.logs[k].level = "warning"})
\* the listing of networks holds no name
C19_NoName(ns) == \A k \in 1..Len(ns) : ns[k] = ""
\* the network the worker of run i is to be launched on
C19_Chosen(i) ==
    IF C19_NoName(run[i].networks) THEN DefaultNetwork ELSE run[i].networks[1]

\* C19: of a run resolving the network for the inference worker: when the
\* listing holds no name, one entry is appended to the logs and it is of level
\* 'warning', and the worker is launched on ml_pipeline_network; when it holds
\* a name, the entry appended is not of level 'warning' and the worker is
\* launched on the first listed name.  No other step of the resolution adds a
\* warning.
C19_NetworkFallback ==
    [][\A i \in Runs :
          /\ (run[i].pc = "inf_log_network" /\ run'[i].pc # "inf_log_network")
                => /\ Len(pipeline_status'.logs) = Len(pipeline_status.logs) + 1
                   /\ C19_Warnings(pipeline_status')
                        = C19_Warnings(pipeline_status)
                            + (IF C19_NoName(run[i].networks) THEN 1 ELSE 0)
                   /\ run'[i].network = C19_Chosen(i)
          /\ (run[i].pc \in {"inf_log_cmd", "inf_launch"} /\ run'[i] # run[i])
                => C19_Warnings(pipeline_status') = C19_Warnings(pipeline_status)
          /\ (run[i].pc = "inf_launch" /\ out'.type = "docker_run")
                => /\ out'.image = "ml-pipeline-inference"
                   /\ out'.network = C19_Chosen(i)]_vars

\* C19 witness: the worker has just been launched on the default network
\* after an empty listing, and the logs hold the one warning
C19_Witness ==
    /\ out.type = "docker_run"
    /\ out.image = "ml-pipeline-inference"
    /\ out.network = DefaultNetwork
    /\ run[out.by].networks = <<"">>
    /\ run[out.by].pc = "inf_probe"
    /\ C19_Warnings(pipeline_status) = 1

\* run i has begun its first phase update and has not returned
C20_Active(i) == run[i].stage # "" /\ run[i].pc \notin {"idle", "done"}

\* C20: while a run is between its first phase update and its return, a step
\* that changes the status record is a step of that run: it is not a step of
\* the upload trigger, of a clear request, of the predict proxy or of another
\* run.
C20_SingleWriter ==
    [][\A i \in Runs :
          (C20_Active(i) /\ pipeline_status' # pipeline_status)
              => /\ up' = up
                 /\ cl' = cl
                 /\ pr' = pr
                 /\ \A j \in Runs \ {i} : run'[j] = run[j]]_vars

\* C21: when a run issues the launch of the inference worker, the stop and
\* the removal of the previous instance have left no instance named
\* ml_inference_service.
C21_LaunchFindsNoInstance ==
    [][\A i \in Runs :
          (run[i].pc = "inf_launch" /\ out'.type = "docker_run")
              => container.state = "absent"]_vars

\* the phases of a status record that have the given status
C22_With(ps, st) == {p \in PhaseSet : Status(ps, p) = st}

\* C22: when a run returns, no phase is 'running', and either the inference
\* phase is 'completed' or exactly one phase is 'error'.
C22_ReturnedRunLeavesNothingRunning ==
    [][\A i \in Runs :
          (run[i].pc # "done" /\ run'[i].pc = "done")
              => /\ C22_With(pipeline_status', "running") = {}
                 /\ \/ Status(pipeline_status', "inference") = "completed"
                    \/ Cardinality(C22_With(pipeline_status', "error")) = 1]_vars

C24_ProducedBy(i, stage) ==
    CASE stage = "conversion" -> File(CanonCSV, "converter", i) \in raw
      [] stage = "cleaning" -> File(CleanedName, "cleaning", i) \in processed
      [] stage = "training" -> File(ModelName, "training", i) \in model

\* C24: a run marks the phase of a stage 'completed' only when the stage's
\* output file was written by the worker invoked in that run; a file left by
\* an earlier run does not count.
C24_CompletedOnlyWithOwnArtifact ==
    [][\A i \in Runs :
          (run[i].pc = "check_artifact" /\ run'[i].pc = "u_status"
             /\ run'[i].upd.status = "completed")
              => C24_ProducedBy(i, run[i].stage)]_vars

\* the runs started so far
C25_Started == {i \in Runs : run[i].pc # "idle"}

\* C25: with runs and clear requests interleaved, whenever model_ready is
\* true and no clear request is at work, an instance of the inference worker
\* exists and it was launched by the most recent run.
C25_ReadyImpliesWorkerOfLatestRun ==
    (cl.pc = "idle" /\ pipeline_status.model_ready)
        => /\ container.state # "absent"
           /\ C25_Started # {}
           /\ \A i \in C25_Started : i <= container.by

====
